---- MODULE Spec2Model ----
(***************************************************************************)
(* OpenFoodFactsViewer (src/src/main.rs): an egui application whose        *)
(* update() draws a top panel (search box and Search button), a central    *)
(* panel (result list or product details) and then drains an mpsc channel  *)
(* fed by the worker threads that the two buttons spawn.                   *)
(*                                                                         *)
(* One frame of update() is two steps of the model, in the order of the    *)
(* code: the panels, where at most one button is clicked, and the drain    *)
(* loop.  Worker threads run before, between and after the two; a thread   *)
(* shares nothing but the channel, which the panels do not touch.  The     *)
(* receiver is a field of the application and lives as long as it does:    *)
(* when the window is closed, eframe drops the application between two     *)
(* frames, and the threads still running find no receiver left.            *)
(***************************************************************************)
EXTENDS Integers, Sequences, FiniteSets, TLC

\* Number of worker threads the model lets the user spawn.
MaxTasks == 3
\* The same, where the model is checked for what eventually happens.
MaxFairTasks == 2

(***************************************************************************)
(* Values                                                                  *)
(***************************************************************************)
\* Option<T>
None == <<>>
Some(x) == <<x>>

\* struct Product, the two shapes a search can return: with and without code
P1 == [code |-> Some("1"), product_name |-> Some("Dark Chocolate")]
P2 == [code |-> None, product_name |-> None]

\* struct ProductDetails
D1 == [code |-> "1", product_name |-> Some("Dark Chocolate"),
       ingredients_text |-> Some("cocoa"), brands |-> None]
D2 == [code |-> "2", product_name |-> None,
       ingredients_text |-> None, brands |-> None]

\* Texts the user can leave in the search box.
Terms == {"", "apple"}

\* Product lists a search response can carry.
SearchPayloads == {<<>>, <<P1, P2>>}
\* Product records a detail response can carry.
DetailPayloads == {D1, D2}

(***************************************************************************)
(* What reqwest::blocking::get can give a worker.  A response body is      *)
(* either unreadable, or a text; a text is either no JSON at all, or a     *)
(* JSON value: a scalar, or an object (a record of its fields).            *)
(***************************************************************************)
TransportErr == [ok |-> FALSE, err |-> "connection refused"]
Unreadable == [ok |-> TRUE, readable |-> FALSE]
Body(t) == [ok |-> TRUE, readable |-> TRUE, text |-> t]
NotJson == [json |-> FALSE]
JsonScalar == [json |-> TRUE, object |-> FALSE]
JsonObject(fields) == [json |-> TRUE, object |-> TRUE, fields |-> fields]

Texts ==
    {NotJson, JsonScalar, JsonObject([status |-> "0"])}
        \cup {JsonObject([products |-> p]) : p \in SearchPayloads}
        \cup {JsonObject([product |-> d]) : d \in DetailPayloads}

Responses == {TransportErr, Unreadable} \cup {Body(t) : t \in Texts}

\* Result<T, E>; a panic of the thread is the third outcome of a worker body
Ok(v) == [tag |-> "Ok", val |-> v]
Err(e) == [tag |-> "Err", val |-> e]
Panic == [tag |-> "Panic"]

\* response.text()
text(response) ==
    IF response.readable THEN Ok(response.text) ELSE Err("error decoding response body")

\* serde_json::from_str::<Product>: any JSON object is a Product, both of whose
\* fields are optional and whose unknown fields are ignored
from_str_Product(t) ==
    IF ~t.json THEN Err("expected value")
    ELSE IF ~t.object THEN Err("invalid type")
    ELSE Ok("Product")

\* serde_json::from_str::<serde_json::Value>
from_str_Value(t) == IF t.json THEN Ok(t) ELSE Err("expected value")

\* serde_json::from_value::<SearchResponse>
from_value_SearchResponse(v) ==
    IF v.object /\ "products" \in DOMAIN v.fields
    THEN Ok([products |-> v.fields.products])
    ELSE Err("missing field products")

\* response.json::<ProductDetailsResponse>(): reqwest reports an unreadable
\* body and every serde error alike, as its decode error
json_ProductDetailsResponse(response) ==
    IF /\ response.readable
       /\ response.text.json
       /\ response.text.object
       /\ "product" \in DOMAIN response.text.fields
    THEN Ok([product |-> response.text.fields.product])
    ELSE Err("error decoding response body")

\* format!("<prefix>{}", e)
format(prefix, e) == <<prefix, e>>

\* enum Message
SearchResultsMsg(products) == [type |-> "SearchResults", payload |-> products]
ProductDetailsMsg(details) == [type |-> "ProductDetails", payload |-> details]
ErrorMsg(err) == [type |-> "Error", payload |-> err]

(***************************************************************************)
(* The two worker bodies: from the outcome of the fetch to the one message *)
(* the thread goes on to send, or to the panic of an unwrap().             *)
(***************************************************************************)
SearchWorker(response) ==
    IF ~response.ok
    THEN Ok(ErrorMsg(format("Failed to get response: ", response.err)))
    ELSE LET response_text == text(response) IN
         IF response_text.tag = "Err" THEN Panic
         ELSE LET product == from_str_Product(response_text.val) IN
              IF product.tag = "Err" THEN Panic
              ELSE LET response_json == from_str_Value(response_text.val) IN
                   IF response_json.tag = "Err" THEN Panic
                   ELSE LET r == from_value_SearchResponse(response_json.val) IN
                        IF r.tag = "Ok"
                        THEN Ok(SearchResultsMsg(r.val.products))
                        ELSE Ok(ErrorMsg(format("Failed to parse response: ", r.val)))

DetailWorker(response) ==
    IF ~response.ok
    THEN Ok(ErrorMsg(format("Details request failed: ", response.err)))
    ELSE LET r == json_ProductDetailsResponse(response) IN
         IF r.tag = "Ok"
         THEN Ok(ProductDetailsMsg(r.val.product))
         ELSE Ok(ErrorMsg(format("Failed to parse details: ", r.val)))

(***************************************************************************)
(* State                                                                   *)
(***************************************************************************)
VARIABLES
    search_term,        \* OpenFoodFactsViewer::search_term
    search_results,     \* OpenFoodFactsViewer::search_results
    selected_product,   \* OpenFoodFactsViewer::selected_product
    view,               \* OpenFoodFactsViewer::view
    is_loading,         \* OpenFoodFactsViewer::is_loading
    error_message,      \* OpenFoodFactsViewer::error_message
    chan,               \* the mpsc channel: messages sent and not yet received
    message_receiver,   \* OpenFoodFactsViewer::message_receiver: "alive" or "dropped"
    tasks,              \* the worker threads spawned so far, in spawn order
    phase,              \* where update() stands: "panels" or "drain"
    clicked,            \* the button whose clicked() was true in this frame
    batch,              \* history: the messages the drain loop of the last frame received
    applied             \* history: how often the message of each thread was applied

vars == <<search_term, search_results, selected_product, view, is_loading,
          error_message, chan, message_receiver, tasks, phase, clicked, batch,
          applied>>

\* The fields of self that the handlers and the drain loop assign.
Self == [search_results |-> search_results, selected_product |-> selected_product,
         view |-> view, is_loading |-> is_loading, error_message |-> error_message]

Assign(st) ==
    /\ search_results' = st.search_results
    /\ selected_product' = st.selected_product
    /\ view' = st.view
    /\ is_loading' = st.is_loading
    /\ error_message' = st.error_message

Init ==
    /\ search_term = ""
    /\ search_results = <<>>
    /\ selected_product = None
    /\ view = "SearchResults"
    /\ is_loading = FALSE
    /\ error_message = None
    /\ chan = <<>>
    /\ message_receiver = "alive"
    /\ tasks = <<>>
    /\ phase = "panels"
    /\ clicked = "none"
    /\ batch = <<>>
    /\ applied = [t \in 1..MaxTasks |-> 0]

\* std::thread::spawn: a new thread that has yet to run; arg is the
\* search_term or the code that its closure captured
spawn(kind, arg) ==
    tasks' = Append(tasks, [kind |-> kind, arg |-> Some(arg), pc |-> "running",
                            sent |-> 0])

(***************************************************************************)
(* Top panel                                                               *)
(***************************************************************************)
\* a faulty Search handler, which blanks the list while loading
SearchClicked_ClearsResults(st) ==
    [st EXCEPT !.is_loading = TRUE, !.error_message = None, !.search_results = <<>>]

\* a faulty Search handler, which forgets is_loading
SearchClicked_NotLoading(st) == [st EXCEPT !.error_message = None]

\* the Search button's handler
SearchClicked(st) == [st EXCEPT !.is_loading = TRUE, !.error_message = None]

\* ui.button("Search").clicked()
onSearchSubmitted ==
    /\ phase = "panels"
    /\ message_receiver = "alive"
    /\ Len(tasks) < MaxTasks
    /\ Assign(SearchClicked(Self))
    /\ spawn("search", search_term)
    /\ phase' = "drain"
    /\ clicked' = "Search"
    /\ batch' = <<>>
    /\ UNCHANGED <<search_term, chan, message_receiver, applied>>

(***************************************************************************)
(* Central panel                                                           *)
(***************************************************************************)
\* a faulty panel, which draws its buttons under the error line
ShowsBody_DespiteError(st) == ~st.is_loading

\* the panel draws its buttons only in the last branch of
\* if self.is_loading {..} else if let Some(error) = &self.error_message {..} else {..}
ShowsBody(st) == ~st.is_loading /\ st.error_message = None

\* the handler of a product's button
ProductClicked(st) == [st EXCEPT !.view = "ProductDetails", !.is_loading = TRUE]

\* a faulty fallback, without the sentinel
code_or_empty(product) ==
    IF product.code = None THEN "" ELSE product.code[1]

\* product.code.clone().unwrap_or_else(|| "unknown".to_string())
code_or_unknown(product) ==
    IF product.code = None THEN "unknown" ELSE product.code[1]

\* a faulty Back handler, which flips the view
BackClicked_Toggles(st) ==
    [st EXCEPT !.view = IF @ = "ProductDetails" THEN "SearchResults"
                        ELSE "ProductDetails",
               !.selected_product = None]

\* the Back button's handler
BackClicked(st) == [st EXCEPT !.view = "SearchResults", !.selected_product = None]

(***************************************************************************)
(* The panels of one frame                                                 *)
(***************************************************************************)
\* a frame in which no button is clicked;
\* ui.text_edit_singleline(&mut self.search_term) may edit the text
NoClick(term) ==
    /\ phase = "panels"
    /\ message_receiver = "alive"
    /\ search_term' = term
    /\ phase' = "drain"
    /\ clicked' = "none"
    /\ batch' = <<>>
    /\ UNCHANGED <<search_results, selected_product, view, is_loading,
                   error_message, chan, message_receiver, tasks, applied>>

\* the i-th product's button clicked
onProductSelected(i) ==
    /\ phase = "panels"
    /\ message_receiver = "alive"
    /\ ShowsBody(Self)
    /\ view = "SearchResults"
    /\ i \in 1..Len(search_results)
    /\ Len(tasks) < MaxTasks
    /\ Assign(ProductClicked(Self))
    /\ spawn("detail", code_or_unknown(search_results[i]))
    /\ phase' = "drain"
    /\ clicked' = "Product"
    /\ batch' = <<>>
    /\ UNCHANGED <<search_term, chan, message_receiver, applied>>

\* ui.button("Back").clicked()
onBackRequested ==
    /\ phase = "panels"
    /\ message_receiver = "alive"
    /\ ShowsBody(Self)
    /\ view = "ProductDetails"
    /\ Assign(BackClicked(Self))
    /\ phase' = "drain"
    /\ clicked' = "Back"
    /\ batch' = <<>>
    /\ UNCHANGED <<search_term, chan, message_receiver, tasks, applied>>

(***************************************************************************)
(* Drain loop                                                              *)
(***************************************************************************)
\* a faulty receiver, which loses every second message
try_recv_Skips(q) ==
    [message |-> Head(q), rest |-> IF Len(q) > 1 THEN Tail(Tail(q)) ELSE Tail(q)]

\* a faulty receiver, which hands over the newest message first
try_recv_Newest(q) == [message |-> q[Len(q)], rest |-> SubSeq(q, 1, Len(q) - 1)]

\* self.message_receiver.try_recv() on a non-empty channel
try_recv(q) == [message |-> Head(q), rest |-> Tail(q)]

\* a faulty match, whose Error arm blanks the list
ApplyMessage_ErrorClearsResults(st, message) ==
    CASE message.type = "SearchResults" ->
            [st EXCEPT !.search_results = message.payload, !.is_loading = FALSE]
      [] message.type = "ProductDetails" ->
            [st EXCEPT !.selected_product = Some(message.payload), !.is_loading = FALSE]
      [] message.type = "Error" ->
            [st EXCEPT !.error_message = Some(message.payload), !.is_loading = FALSE,
                       !.search_results = <<>>]

\* a faulty match, whose ProductDetails arm switches the view
ApplyMessage_DetailsOpensView(st, message) ==
    CASE message.type = "SearchResults" ->
            [st EXCEPT !.search_results = message.payload, !.is_loading = FALSE]
      [] message.type = "ProductDetails" ->
            [st EXCEPT !.selected_product = Some(message.payload), !.is_loading = FALSE,
                       !.view = "ProductDetails"]
      [] message.type = "Error" ->
            [st EXCEPT !.error_message = Some(message.payload), !.is_loading = FALSE]

\* a faulty match, whose SearchResults arm forgets the selection
ApplyMessage_ResultsDropSelection(st, message) ==
    CASE message.type = "SearchResults" ->
            [st EXCEPT !.search_results = message.payload, !.is_loading = FALSE,
                       !.selected_product = None]
      [] message.type = "ProductDetails" ->
            [st EXCEPT !.selected_product = Some(message.payload), !.is_loading = FALSE]
      [] message.type = "Error" ->
            [st EXCEPT !.error_message = Some(message.payload), !.is_loading = FALSE]

\* a faulty match, which takes a list only while a request is awaited
ApplyMessage_IdleDiscards(st, message) ==
    CASE message.type = "SearchResults" ->
            IF st.is_loading
            THEN [st EXCEPT !.search_results = message.payload, !.is_loading = FALSE]
            ELSE st
      [] message.type = "ProductDetails" ->
            [st EXCEPT !.selected_product = Some(message.payload), !.is_loading = FALSE]
      [] message.type = "Error" ->
            [st EXCEPT !.error_message = Some(message.payload), !.is_loading = FALSE]

\* a faulty match, whose SearchResults and ProductDetails arms clear the error
ApplyMessage_SuccessClearsError(st, message) ==
    CASE message.type = "SearchResults" ->
            [st EXCEPT !.search_results = message.payload, !.is_loading = FALSE,
                       !.error_message = None]
      [] message.type = "ProductDetails" ->
            [st EXCEPT !.selected_product = Some(message.payload), !.is_loading = FALSE,
                       !.error_message = None]
      [] message.type = "Error" ->
            [st EXCEPT !.error_message = Some(message.payload), !.is_loading = FALSE]

\* match message { .. }
ApplyMessage(st, message) ==
    CASE message.type = "SearchResults" ->
            [st EXCEPT !.search_results = message.payload, !.is_loading = FALSE]
      [] message.type = "ProductDetails" ->
            [st EXCEPT !.selected_product = Some(message.payload), !.is_loading = FALSE]
      [] message.type = "Error" ->
            [st EXCEPT !.error_message = Some(message.payload), !.is_loading = FALSE]

\* while let Ok(message) = self.message_receiver.try_recv() { .. }
\* log lists the messages received, in order.
RECURSIVE DrainLoop(_, _, _)
DrainLoop(st, log, q) ==
    IF q = <<>> THEN [st |-> st, log |-> log]
    ELSE LET r == try_recv(q) IN
         DrainLoop(ApplyMessage(st, r.message), Append(log, r.message), r.rest)

\* a faulty drain loop, which searches again after an Error
pollMessages_RetriesOnError ==
    /\ phase = "drain"
    /\ message_receiver = "alive"
    /\ LET d == DrainLoop(Self, <<>>, chan) IN
        /\ Assign(d.st)
        /\ batch' = d.log
        /\ applied' = [t \in 1..MaxTasks |->
                            applied[t] + Cardinality({k \in 1..Len(d.log) : d.log[k].from = t})]
    /\ chan' = <<>>
    /\ phase' = "panels"
    /\ clicked' = "none"
    /\ IF (\E k \in 1..Len(chan) : chan[k].type = "Error") /\ Len(tasks) < MaxTasks
       THEN spawn("search", search_term)
       ELSE tasks' = tasks
    /\ UNCHANGED <<search_term, message_receiver>>

\* the drain loop that ends every frame
pollMessages ==
    /\ phase = "drain"
    /\ message_receiver = "alive"
    /\ LET d == DrainLoop(Self, <<>>, chan) IN
        /\ Assign(d.st)
        /\ batch' = d.log
        /\ applied' = [t \in 1..MaxTasks |->
                            applied[t] + Cardinality({k \in 1..Len(d.log) : d.log[k].from = t})]
    /\ chan' = <<>>
    /\ phase' = "panels"
    /\ clicked' = "none"
    /\ UNCHANGED <<search_term, message_receiver, tasks>>

(***************************************************************************)
(* Worker threads                                                          *)
(***************************************************************************)
\* the closure given to std::thread::spawn
Worker(kind, response) ==
    IF kind = "search" THEN SearchWorker(response) ELSE DetailWorker(response)

\* sender.send(message) on the unbounded channel; from names the sending
\* thread for the histories, and no handler reads it
send(q, message, t) ==
    Append(q, [type |-> message.type, payload |-> message.payload, from |-> t])

\* The end of a thread, by return or by panic, drops what its closure captured.
exit(task, how) == [task EXCEPT !.pc = how, !.arg = None]

\* a faulty build, in which a panic aborts the process and so every thread
unwrap_SendError_Aborts(ts, t) == [k \in 1..Len(ts) |-> exit(ts[k], "panicked")]

\* sender.send(..).unwrap() with no receiver left: send returns
\* Err(SendError), unwrap panics, and the panic unwinds thread t
unwrap_SendError(ts, t) == [ts EXCEPT ![t] = exit(@, "panicked")]

\* a faulty thread, which sets is_loading itself when it ends
TaskRun_ClearsLoading(t, response) ==
    /\ t \in 1..Len(tasks)
    /\ tasks[t].pc = "running"
    /\ LET r == Worker(tasks[t].kind, response) IN
        IF r.tag = "Panic"
        THEN /\ tasks' = [tasks EXCEPT ![t] = exit(@, "panicked")]
             /\ chan' = chan
        ELSE IF message_receiver = "alive"
        THEN /\ tasks' = [tasks EXCEPT ![t] = exit([@ EXCEPT !.sent = @ + 1], "done")]
             /\ chan' = send(chan, r.val, t)
        ELSE /\ tasks' = unwrap_SendError(tasks, t)
             /\ chan' = chan
    /\ is_loading' = FALSE
    /\ UNCHANGED <<search_term, search_results, selected_product, view,
                   error_message, message_receiver, phase, clicked, batch, applied>>

\* A thread runs its closure: the fetch, the decoding, and either the one
\* sender.send(..) that ends it or the panic of an unwrap().
TaskRun(t, response) ==
    /\ t \in 1..Len(tasks)
    /\ tasks[t].pc = "running"
    /\ LET r == Worker(tasks[t].kind, response) IN
        IF r.tag = "Panic"
        THEN /\ tasks' = [tasks EXCEPT ![t] = exit(@, "panicked")]
             /\ chan' = chan
        ELSE IF message_receiver = "alive"
        THEN /\ tasks' = [tasks EXCEPT ![t] = exit([@ EXCEPT !.sent = @ + 1], "done")]
             /\ chan' = send(chan, r.val, t)
        ELSE /\ tasks' = unwrap_SendError(tasks, t)
             /\ chan' = chan
    /\ UNCHANGED <<search_term, search_results, selected_product, view, is_loading,
                   error_message, message_receiver, phase, clicked, batch, applied>>

\* The window is closed: eframe::run_native leaves its loop after a whole
\* frame and drops the application, and with it the receiver and the
\* messages still queued.
Close ==
    /\ phase = "panels"
    /\ message_receiver = "alive"
    /\ message_receiver' = "dropped"
    /\ chan' = <<>>
    /\ UNCHANGED <<search_term, search_results, selected_product, view, is_loading,
                   error_message, tasks, phase, clicked, batch, applied>>

Next ==
    \/ \E term \in Terms : NoClick(term)
    \/ onSearchSubmitted
    \/ \E i \in 1..Len(search_results) : onProductSelected(i)
    \/ onBackRequested
    \/ pollMessages
    \/ \E t \in 1..MaxTasks, response \in Responses : TaskRun(t, response)
    \/ Close

Spec == Init /\ [][Next]_vars

\* eframe keeps calling update(): a frame that has begun runs to its end and
\* another one follows
Frame ==
    \/ \E term \in Terms : NoClick(term)
    \/ pollMessages

\* Next, with MaxFairTasks threads at most, while the window stays open
FairNext ==
    \/ \E term \in Terms : NoClick(term)
    \/ Len(tasks) < MaxFairTasks /\ onSearchSubmitted
    \/ \E i \in 1..Len(search_results) :
            Len(tasks) < MaxFairTasks /\ onProductSelected(i)
    \/ onBackRequested
    \/ pollMessages
    \/ \E t \in 1..MaxTasks, response \in Responses : TaskRun(t, response)

FairSpec == Init /\ [][FairNext]_vars /\ WF_vars(Frame)

(***************************************************************************)
(* Properties                                                              *)
(***************************************************************************)
\* the step is one that spawns a thread
Spawned == Len(tasks') = Len(tasks) + 1
\* the step is a whole drain loop
Polled == phase = "drain" /\ phase' = "panels"
\* the step is the handler of the Search, of a product's, of the Back button
SearchStep == phase = "panels" /\ clicked' = "Search"
ProductStep == phase = "panels" /\ clicked' = "Product"
BackStep == phase = "panels" /\ clicked' = "Back"

Terminated(t) == tasks[t].pc \in {"done", "panicked"}
Running == {t \in 1..Len(tasks) : tasks[t].pc = "running"}
Types(q) == {q[k].type : k \in 1..Len(q)}
\* the payload of the last message of the given type in q (q has one)
LastOf(q, type) ==
    LET K == {k \in 1..Len(q) : q[k].type = type}
    IN  q[CHOOSE k \in K : \A j \in K : j <= k].payload

\* C1: every worker thread, search or detail, whatever its fetch gave, ends
\* having sent exactly one message: never none, never more than one (while
\* the window is open: a send with no receiver left is the case of C14).
C1_ExactlyOneMessage ==
    message_receiver = "alive" =>
        \A t \in 1..Len(tasks) :
            /\ tasks[t].sent <= 1
            /\ Terminated(t) => tasks[t].sent = 1

\* C2: is_loading is true right after any handler that spawns a thread, and
\* false right after a drain loop that applies the message of that thread.
C2_LoadingFollowsTask ==
    [][/\ Spawned => is_loading'
       /\ \A t \in 1..Len(tasks) :
            (Polled /\ \E k \in 1..Len(chan) : chan[k].from = t) => ~is_loading']_vars

\* C2 witness: a drain loop has just applied the message of the thread spawned
\* last, which ran while an older thread was in flight.
C2_Witness ==
    /\ phase = "panels" /\ ~is_loading
    /\ Len(tasks) >= 2
    /\ \E k \in 1..Len(batch) : batch[k].from = Len(tasks)
    /\ Running # {}

\* C3: a drain loop receives every queued message in arrival order and the
\* last one of each variant wins; on an empty channel it does not wait, and
\* changes nothing.
C3_PollLastWins ==
    /\ [](phase = "drain" => ENABLED pollMessages)
    /\ [][Polled =>
        /\ chan' = <<>>
        /\ batch' = chan
        /\ IF chan = <<>>
           THEN UNCHANGED <<search_term, search_results, selected_product, view,
                            is_loading, error_message>>
           ELSE /\ ~is_loading'
                /\ search_results' =
                     IF "SearchResults" \in Types(chan)
                     THEN LastOf(chan, "SearchResults") ELSE search_results
                /\ selected_product' =
                     IF "ProductDetails" \in Types(chan)
                     THEN Some(LastOf(chan, "ProductDetails")) ELSE selected_product
                /\ error_message' =
                     IF "Error" \in Types(chan)
                     THEN Some(LastOf(chan, "Error")) ELSE error_message]_vars

\* C3 witness: one drain loop applied two different result lists and the
\* second is the one displayed.
C3_Witness ==
    /\ phase = "panels"
    /\ Len(batch) = 2
    /\ batch[1].type = "SearchResults" /\ batch[2].type = "SearchResults"
    /\ batch[1].payload # batch[2].payload
    /\ search_results = batch[2].payload

\* C4 as stated: for every Error(e) a drain loop applies, after the loop
\* is_loading is false, error_message is Some(e), and search_results,
\* selected_product and view are what they were.
C4_ErrorAfterPoll ==
    [][Polled =>
        \A k \in 1..Len(chan) : chan[k].type = "Error" =>
            /\ ~is_loading'
            /\ error_message' = Some(chan[k].payload)
            /\ UNCHANGED <<search_results, selected_product, view>>]_vars

\* C4 amended: after a drain loop that applied an Error, is_loading is false,
\* error_message is Some(e) for the last Error(e) of the batch, view is what
\* it was, search_results is what it was if the batch has no SearchResults,
\* selected_product is what it was if the batch has no ProductDetails.
C4_LastErrorAfterPoll ==
    [][(Polled /\ "Error" \in Types(chan)) =>
        /\ ~is_loading'
        /\ error_message' = Some(LastOf(chan, "Error"))
        /\ view' = view
        /\ "SearchResults" \notin Types(chan) => search_results' = search_results
        /\ "ProductDetails" \notin Types(chan) =>
                selected_product' = selected_product]_vars

\* C4 witness: a drain loop applied two different Errors, and the second is
\* the one displayed, over results loaded earlier.
C4_Witness ==
    /\ phase = "panels"
    /\ Len(batch) = 2
    /\ batch[1].type = "Error" /\ batch[2].type = "Error"
    /\ batch[1].payload # batch[2].payload
    /\ error_message = Some(batch[2].payload)
    /\ ~is_loading
    /\ search_results # <<>>

\* C5: in every reachable state, is_loading implies error_message = None.
C5_LoadingImpliesNoError == is_loading => error_message = None

\* C5 witness: loading, with two threads in flight, after the message of an
\* earlier thread was applied.
C5_Witness ==
    /\ is_loading
    /\ Cardinality(Running) >= 2
    /\ \E t \in 1..Len(tasks) : applied[t] = 1

\* C6: view starts as SearchResults and changes only from SearchResults to
\* ProductDetails in the product handler and from ProductDetails to
\* SearchResults in the Back handler; the Search handler, the drain loop and
\* the worker threads never change it.
C6_ViewTransitions ==
    /\ view = "SearchResults"
    /\ [][/\ view \in {"SearchResults", "ProductDetails"}
          /\ view' # view =>
                \/ ProductStep /\ view = "SearchResults" /\ view' = "ProductDetails"
                \/ BackStep /\ view = "ProductDetails" /\ view' = "SearchResults"
          /\ ProductStep => view' = "ProductDetails"
          /\ BackStep => view' = "SearchResults"
          /\ (SearchStep \/ Polled) => view' = view]_vars

\* C6 witness: the view is ProductDetails while a drain loop applies a
\* SearchResults message and an Error, and stays ProductDetails.
C6_Witness ==
    /\ phase = "panels"
    /\ view = "ProductDetails"
    /\ {"SearchResults", "Error"} \subseteq Types(batch)

\* C7: the Search handler, for any term and in any state, sets is_loading,
\* clears error_message, spawns exactly one search thread carrying the term,
\* and leaves search_results, selected_product and view as they were;
\* search_results changes only when a drain loop applies a SearchResults.
C7_SearchSubmitted ==
    [][/\ SearchStep =>
            /\ is_loading' /\ error_message' = None
            /\ tasks' = Append(tasks, [kind |-> "search", arg |-> Some(search_term),
                                       pc |-> "running", sent |-> 0])
            /\ UNCHANGED <<search_term, search_results, selected_product, view>>
       /\ search_results' # search_results =>
            /\ Polled
            /\ "SearchResults" \in Types(chan)
            /\ search_results' = LastOf(chan, "SearchResults")]_vars

\* C7 witness: the empty term has just been submitted while another thread is
\* in flight, and the results of an earlier search are kept.
C7_Witness ==
    /\ phase = "drain" /\ clicked = "Search"
    /\ tasks[Len(tasks)].arg = Some("")
    /\ Cardinality(Running) = 2
    /\ search_results # <<>>
    /\ is_loading /\ error_message = None

C9_BackIdempotent ==
    [][BackStep =>
        /\ view' = "SearchResults" /\ selected_product' = None
        /\ UNCHANGED <<tasks, search_results, is_loading, error_message, chan,
                       message_receiver, search_term, applied>>
        /\ BackClicked(BackClicked(Self)) = BackClicked(Self)
        /\ BackClicked(Self)' = Self']_vars

\* C9 witness: Back has just been clicked on a product whose details had
\* been applied.
C9_Witness ==
    /\ phase = "drain" /\ clicked = "Back"
    /\ view = "SearchResults" /\ selected_product = None
    /\ \E t \in 1..Len(tasks) : tasks[t].kind = "detail" /\ applied[t] = 1

\* the messages of thread t in q
Of(q, t) == {k \in 1..Len(q) : q[k].from = t}

\* C10: every message sent is applied exactly once, neither twice nor never;
\* the channel hands the messages over in the order of the sends; while
\* frames keep coming a queued message is eventually applied; applied plus
\* queued never exceeds the threads spawned.
C10_AppliedExactlyOnce ==
    /\ [](\A t \in 1..MaxTasks :
            applied[t] + Cardinality(Of(chan, t))
                = IF t <= Len(tasks) THEN tasks[t].sent ELSE 0)
    /\ [](\A t \in 1..MaxTasks : applied[t] <= 1)
    /\ [](Cardinality({t \in 1..MaxTasks : applied[t] > 0}) + Len(chan) <= Len(tasks))
    /\ [][IF Polled THEN batch' = chan /\ chan' = <<>>
          ELSE chan' = chan \/ (Len(chan') = Len(chan) + 1
                                /\ SubSeq(chan', 1, Len(chan)) = chan)]_vars
    /\ \A t \in 1..MaxTasks : (Of(chan, t) # {}) ~> (applied[t] = 1)

\* C10 witness: one drain loop has applied the messages of two threads, in
\* the order of the sends, which is not the order the threads were spawned in.
C10_Witness ==
    /\ phase = "panels"
    /\ Len(batch) = 2
    /\ batch[1].from > batch[2].from
    /\ \A t \in 1..2 : applied[t] = 1
    /\ chan = <<>>

\* the places of the messages of the given type in q
Ks(q, type) == {k \in 1..Len(q) : q[k].type = type}

\* C11: with a search thread and a detail thread in flight together, the
\* order in which their messages arrive makes no difference: once both are
\* applied, in one drain loop or in two, search_results is the list of the
\* search, selected_product is Some of the details and is_loading is false.
\* A ProductDetails message sets selected_product whatever the view is.
C11_EitherOrder ==
    /\ [][Polled =>
            \A j, k \in 1..Len(chan) :
                (Ks(chan, "SearchResults") = {j} /\ Ks(chan, "ProductDetails") = {k}) =>
                    /\ search_results' = chan[j].payload
                    /\ selected_product' = Some(chan[k].payload)
                    /\ ~is_loading'
                    /\ ApplyMessage(ApplyMessage(Self, chan[j]), chan[k])
                        = ApplyMessage(ApplyMessage(Self, chan[k]), chan[j])]_vars
    /\ [][Polled =>
            /\ Ks(chan, "ProductDetails") # {} =>
                    selected_product' = Some(LastOf(chan, "ProductDetails"))
            /\ Ks(chan, "ProductDetails") = {} => selected_product' = selected_product
            /\ Ks(chan, "SearchResults") # {} =>
                    search_results' = LastOf(chan, "SearchResults")
            /\ Ks(chan, "SearchResults") = {} => search_results' = search_results
            /\ view' = view]_vars

\* C11 witness: the details of a product arrive after the list of a search
\* started later has been applied and the user has gone back: a drain loop
\* has set selected_product in the SearchResults view.
C11_Witness ==
    /\ phase = "panels" /\ ~is_loading
    /\ view = "SearchResults"
    /\ Len(batch) = 1 /\ batch[1].type = "ProductDetails"
    /\ selected_product = Some(batch[1].payload)
    /\ \E t \in 1..Len(tasks) :
        t > batch[1].from /\ tasks[t].kind = "search" /\ applied[t] = 1

\* C12: nothing cancels or fences a search: a second click on Search leaves
\* the thread of the first as it is, still running and free to end and send;
\* only a thread's own step ends it; a drain loop applies every message it
\* finds whichever thread sent it, so the list of an older search, applied
\* after the list of a newer one, is the one search_results keeps.
C12_NoCancelNoFence ==
    /\ [][SearchStep => /\ SubSeq(tasks', 1, Len(tasks)) = tasks
                        /\ chan' = chan]_vars
    /\ [][SubSeq(tasks', 1, Len(tasks)) # tasks =>
            /\ phase' = phase /\ Self' = Self
            /\ \E t \in Running :
                /\ Terminated(t)'
                /\ \A u \in 1..Len(tasks) : u # t => tasks'[u] = tasks[u]]_vars
    /\ [](\A t \in Running : ENABLED (\E response \in Responses : TaskRun(t, response)))
    /\ [][Polled =>
            /\ batch' = chan
            /\ \A t \in 1..Len(tasks) : applied'[t] = applied[t] + Cardinality(Of(chan, t))
            /\ \A k \in Ks(chan, "SearchResults") :
                (\A j \in Ks(chan, "SearchResults") : j <= k) =>
                    search_results' = chan[k].payload]_vars

\* C12 witness: two searches were in flight together and the list of the
\* older one arrived last: search_results holds it, not the newer list.
C12_Witness ==
    /\ phase = "panels"
    /\ Len(batch) = 2
    /\ batch[1].type = "SearchResults" /\ batch[2].type = "SearchResults"
    /\ batch[1].from > batch[2].from
    /\ batch[1].payload # batch[2].payload
    /\ search_results = batch[2].payload

\* C13: after every click that spawns a thread, whatever its fetch returns,
\* and while frames keep coming and nothing more is clicked, is_loading is
\* false in the end.  Only the message of a thread sets it false, so once
\* every thread has ended and a drain loop has left the channel empty, with
\* the window still open, is_loading is false.
C13_LoadingEnds ==
    (/\ message_receiver = "alive"
     /\ phase = "panels" /\ chan = <<>>
     /\ \A t \in 1..Len(tasks) : Terminated(t)) => ~is_loading

\* C14: a send that fails because the receiver is gone ends the thread that
\* made it and nothing else: that thread terminates having sent nothing,
\* every other thread is as it was and can still take its step, and the
\* fields of the application and the channel are unchanged.
C14_SendFailureConfined ==
    /\ [][(message_receiver = "dropped" /\ tasks' # tasks) =>
            \E t \in Running :
                /\ tasks'[t].pc \in {"done", "panicked"}
                /\ tasks'[t].sent = tasks[t].sent
                /\ Len(tasks') = Len(tasks)
                /\ \A u \in 1..Len(tasks) : u # t => tasks'[u] = tasks[u]
                /\ Running' = Running \ {t}
                /\ Self' = Self /\ search_term' = search_term
                /\ chan' = chan /\ phase' = phase
                /\ message_receiver' = message_receiver]_vars
    /\ [](message_receiver = "dropped" =>
            /\ chan = <<>>
            /\ \A t \in Running :
                ENABLED (\E response \in Responses : TaskRun(t, response)))

\* C14 witness: the window was closed with two threads running; the detail
\* thread, which never panics while decoding, has ended on its failed send
\* and the other thread is still running.
C14_Witness ==
    /\ message_receiver = "dropped"
    /\ \E t \in 1..Len(tasks) :
        /\ tasks[t].kind = "detail" /\ tasks[t].pc = "panicked" /\ tasks[t].sent = 0
        /\ \E u \in Running : u # t

\* the step is one of a worker thread
TaskStep == Len(tasks') = Len(tasks) /\ tasks' # tasks
\* what a step of thread t may do to the channel: nothing, or one send
SentBy(t) ==
    \/ chan' = chan
    \/ /\ Len(chan') = Len(chan) + 1
       /\ SubSeq(chan', 1, Len(chan)) = chan
       /\ chan'[Len(chan')].from = t

C16_OneTaskPerFetch ==
    /\ Len(tasks) = 0
    /\ [][Len(tasks') = Len(tasks) + (IF SearchStep \/ ProductStep THEN 1 ELSE 0)]_vars
    /\ [][/\ SearchStep => tasks'[Len(tasks')].kind = "search"
          /\ ProductStep => tasks'[Len(tasks')].kind = "detail"]_vars
    /\ [][(BackStep \/ Polled) => tasks' = tasks]_vars
    /\ [][(Polled /\ "Error" \in Types(chan)) =>
            /\ Running' = Running
            /\ ~is_loading']_vars

\* C16 witness: a search and a detail lookup were made and both threads have
\* ended; the last drain loop applied the Error of the lookup: there are
\* still two threads, and none is running.
C16_Witness ==
    /\ phase = "panels"
    /\ "Error" \in Types(batch)
    /\ error_message # None /\ ~is_loading
    /\ Len(tasks) = 2
    /\ tasks[1].kind = "search" /\ tasks[2].kind = "detail"
    /\ Running = {}

\* C17: once error_message is Some, only the Search handler sets it back to
\* None: a drain loop that applies no Error leaves it as it is while it
\* updates search_results or selected_product, one that applies an Error
\* leaves it Some, and the assignments of a product's handler and of the
\* Back handler do not write it.
C17_ErrorSticky ==
    /\ [][(error_message # None /\ error_message' = None) => SearchStep]_vars
    /\ [][(Polled /\ "Error" \notin Types(chan)) => error_message' = error_message]_vars
    /\ [][(ProductStep \/ BackStep) => error_message' = error_message]_vars
    /\ [](/\ BackClicked(Self).error_message = error_message
          /\ ProductClicked(Self).error_message = error_message)
    /\ [](\A m \in {SearchResultsMsg(<<P1, P2>>), ProductDetailsMsg(D1)} :
            ApplyMessage(Self, m).error_message = error_message)

\* C17 witness: an Error was applied by an earlier drain loop, and the last
\* one has applied the list of a second search that was in flight:
\* search_results holds the list, and error_message is still set.
C17_Witness ==
    /\ phase = "panels"
    /\ error_message # None
    /\ Len(batch) = 1 /\ batch[1].type = "SearchResults"
    /\ batch[1].payload # <<>>
    /\ search_results = batch[1].payload
    /\ ~is_loading

\* C18: the buttons exist only where the panel shows them: a product's
\* handler runs only with is_loading false, error_message None and the
\* SearchResults view, the Back handler only with is_loading false,
\* error_message None and the ProductDetails view, and the Search handler
\* can run in every frame; so while error_message is set no Back (and no
\* product) click is possible, and the first one after it comes only once a
\* Search has cleared the error and a message has cleared is_loading.
C18_GuardedByDisplay ==
    /\ [][ProductStep => (~is_loading /\ error_message = None
                          /\ view = "SearchResults")]_vars
    /\ [][BackStep => (~is_loading /\ error_message = None
                       /\ view = "ProductDetails")]_vars
    /\ []((phase = "panels" /\ message_receiver = "alive" /\ Len(tasks) < MaxTasks)
            => ENABLED onSearchSubmitted)
    /\ []((error_message # None \/ is_loading) =>
            /\ ~ENABLED onBackRequested
            /\ \A i \in 1..Len(search_results) : ~ENABLED onProductSelected(i))
    /\ [][/\ (error_message # None /\ error_message' = None) =>
                (SearchStep /\ is_loading')
          /\ (is_loading /\ ~is_loading') => (Polled /\ chan # <<>>)]_vars
    /\ []((phase = "panels" /\ message_receiver = "alive" /\ ShowsBody(Self)) =>
            IF view = "ProductDetails" THEN ENABLED onBackRequested
            ELSE \A i \in 1..Len(search_results) :
                    Len(tasks) < MaxTasks => ENABLED onProductSelected(i))

\* C18 witness: the details view with the error of the lookup set, where no
\* Back button is shown, and the Search button can be clicked.
C18_Witness ==
    /\ phase = "panels" /\ message_receiver = "alive"
    /\ view = "ProductDetails"
    /\ error_message # None /\ ~is_loading
    /\ Len(tasks) < MaxTasks
    /\ ~ENABLED onBackRequested
    /\ ENABLED onSearchSubmitted

====
